---- MODULE Spec2Model ----
(***************************************************************************)
(* Model of the counters of the global_counter crate (src/src/lib.rs):     *)
(*   primitive::FlushingCounter, primitive::ApproxCounter,                 *)
(*   the primitive_counter! family (CounterU8 as the instance) and         *)
(*   generic::Counter<T>.                                                  *)
(*                                                                         *)
(* Threads are the callers.  Every operation is cut at each access to      *)
(* memory that another thread can see (the shared accumulator, the mutex), *)
(* so a state of the model is a point at which another thread may run.     *)
(* The counts stay far below usize::MAX within the bounds, so the          *)
(* wrap-around of AtomicUsize::fetch_add is not reached here.              *)
(***************************************************************************)
EXTENDS Integers, Sequences, FiniteSets, Bags, TLC

\* ---- bounds of the model ------------------------------------------------
NumThreads == 2
MaxCounters == 2
MaxStart == 1
MaxResolution == 2
MaxIncCalls == 2
MaxGenericIncs == 3

Threads == 1..NumThreads

Abs(x) == IF x < 0 THEN -x ELSE x

RECURSIVE SumOver(_, _)
SumOver(f, S) ==
    IF S = {} THEN 0
    ELSE LET x == CHOOSE y \in S : TRUE IN f[x] + SumOver(f, S \ {x})

VARIABLES
    approx,         \* the ApproxCounter objects of the program, by index
    flushing,       \* the FlushingCounter objects of the program, by index
    thread_local,   \* thread-local statics: key -> thread -> UnsafeCell<usize>
    pc,             \* per thread: where it is ([at, self]); self = counter index
    prim,           \* the CounterU8 of the program: [value, ordering]
    generic,        \* the generic::Counter<T> of the program: Mutex<T>
    approx_log,     \* history of calls per ApproxCounter (not program state)
    flushing_log,   \* history of calls per FlushingCounter (not program state)
    prim_log,       \* history of calls on the CounterU8 (not program state)
    generic_log     \* history of calls on the generic counter (not program state)

vars == <<approx, flushing, thread_local, pc, prim, generic,
          approx_log, flushing_log, prim_log, generic_log>>

\* the variables of each counter type
approxVars == <<approx, approx_log>>
flushingVars == <<flushing, flushing_log>>
primVars == <<prim, prim_log>>
genericVars == <<generic, generic_log>>

\* ---- thread-local storage -----------------------------------------------
\* `thread_local!(pub static TL_COUNTER ...)` is an item declared in the body
\* of `new`: one static per function, whatever the number of calls of `new`.
ApproxTlKey == "ApproxCounter::new::TL_COUNTER"
FlushingTlKey == "FlushingCounter::new::TL_COUNTER"
TlKeys == {ApproxTlKey, FlushingTlKey}

\* UnsafeCell::new(0) for every thread, lazily; a thread's cell is its own.
TlInit == [k \in TlKeys |-> [t \in Threads |-> 0]]

TlGet(key, t) == thread_local[key][t]
TlSet(key, t, v) == [thread_local EXCEPT ![key][t] = v]

Idle == [at |-> "idle", self |-> 0]
At(t, label) == pc[t].at = label
Goto(t, label, c) == pc' = [pc EXCEPT ![t] = [at |-> label, self |-> c]]

\* The history kept per counter: the start value, the inc calls begun per
\* thread, the threads that ever called flush, the threads whose latest
\* call (inc or flush) on the counter is an inc, the memory orderings of
\* the additions made into the shared accumulator, and the value the latest
\* get returned (-1: no get yet).
NewLog(start) ==
    [start |-> start,
     incs |-> [t \in Threads |-> 0],
     flushers |-> {},
     dirty |-> {},
     adds |-> {},
     read |-> -1]

LogInc(log, t) ==
    [log EXCEPT !.incs[t] = @ + 1, !.dirty = @ \cup {t}]
LogFlush(log, t) ==
    [log EXCEPT !.flushers = @ \cup {t}, !.dirty = @ \ {t}]

LogAdd(log, ordering) ==
    [log EXCEPT !.adds = @ \cup {ordering}]
LogRead(log, value) ==
    [log EXCEPT !.read = value]

IncCalls(log) == SumOver(log.incs, Threads)
IncThreads(log) == {t \in Threads : log.incs[t] > 0}

\* a program that builds no counter of a type
NoApprox == approx = <<>> /\ approx_log = <<>>
NoFlushing == flushing = <<>> /\ flushing_log = <<>>
NoPrim == prim = <<>> /\ prim_log = <<>>
NoGeneric == generic = <<>> /\ generic_log = <<>>

\* ---- primitive::ApproxCounter ------------------------------------------

\* ApproxCounter::new(start, resolution)
ApproxCounterNew(start, resolution) ==
    [threshold |-> resolution,
     global_counter |-> start,
     thread_local_counter |-> ApproxTlKey]

\* ApproxCounter::get: global_counter.load(SeqCst)
ApproxGet(c) == approx[c].global_counter

\* the calling thread's cell of the counter's thread-local
ApproxTlc(c, t) == TlGet(approx[c].thread_local_counter, t)

\* (a slip: the spill is taken one increment late)
ApproxSpillsLate(tlc, threshold) == tlc > threshold

\* `if *tlc >= self.threshold`
ApproxSpills(tlc, threshold) == tlc >= threshold

\* a thread calls c.inc(): `*tlc += 1;` and the test of the threshold, both
\* on the thread's own cell
ApproxInc(t, c) ==
    /\ At(t, "idle")
    /\ c \in DOMAIN approx
    /\ approx_log[c].incs[t] < MaxIncCalls
    /\ LET v == ApproxTlc(c, t) + 1
       IN /\ thread_local' = TlSet(approx[c].thread_local_counter, t, v)
          /\ IF ApproxSpills(v, approx[c].threshold)
             THEN Goto(t, "approx_inc_spill", c)
             ELSE pc' = [pc EXCEPT ![t] = Idle]
    /\ approx_log' = [approx_log EXCEPT ![c] = LogInc(@, t)]
    /\ UNCHANGED <<approx, flushingVars, primVars, genericVars>>

\* `self.global_counter.fetch_add(*tlc, Ordering::SeqCst);`
ApproxIncSpill(t) ==
    /\ At(t, "approx_inc_spill")
    /\ LET c == pc[t].self
       IN /\ approx' = [approx EXCEPT ![c].global_counter = @ + ApproxTlc(c, t)]
          /\ approx_log' = [approx_log EXCEPT ![c] = LogAdd(@, "SeqCst")]
          /\ Goto(t, "approx_inc_reset", c)
    /\ UNCHANGED <<thread_local, flushingVars, primVars, genericVars>>

\* (a slip: the spilling inc returns without the reset of the cell)
ApproxIncKeep(t) ==
    /\ At(t, "approx_inc_reset")
    /\ pc' = [pc EXCEPT ![t] = Idle]
    /\ UNCHANGED <<thread_local, approx, approx_log, flushingVars, primVars,
                   genericVars>>

\* `*tlc = 0;`
ApproxIncReset(t) ==
    /\ At(t, "approx_inc_reset")
    /\ thread_local' = TlSet(approx[pc[t].self].thread_local_counter, t, 0)
    /\ pc' = [pc EXCEPT ![t] = Idle]
    /\ UNCHANGED <<approx, approx_log, flushingVars, primVars, genericVars>>

\* a thread calls c.flush():
\* `self.global_counter.fetch_add(*tlc, Ordering::SeqCst);`
ApproxFlush(t, c) ==
    /\ At(t, "idle")
    /\ c \in DOMAIN approx
    /\ approx' = [approx EXCEPT ![c].global_counter = @ + ApproxTlc(c, t)]
    /\ Goto(t, "approx_flush_reset", c)
    /\ approx_log' = [approx_log EXCEPT ![c] = LogAdd(LogFlush(@, t), "SeqCst")]
    /\ UNCHANGED <<thread_local, flushingVars, primVars, genericVars>>

\* `*tlc = 0;`
ApproxFlushReset(t) ==
    /\ At(t, "approx_flush_reset")
    /\ thread_local' = TlSet(approx[pc[t].self].thread_local_counter, t, 0)
    /\ pc' = [pc EXCEPT ![t] = Idle]
    /\ UNCHANGED <<approx, approx_log, flushingVars, primVars, genericVars>>

\* a thread calls c.get(): `self.global_counter.load(Ordering::SeqCst)`
ApproxLoad(t, c) ==
    /\ At(t, "idle")
    /\ c \in DOMAIN approx
    /\ approx_log' = [approx_log EXCEPT ![c] = LogRead(@, ApproxGet(c))]
    /\ UNCHANGED <<approx, thread_local, pc, flushingVars, primVars, genericVars>>

\* the thread's closure returns; the thread never runs again.  Its
\* thread-local cells are destroyed with it: whatever they held is added to
\* no counter (the model keeps the last value, which nothing reads any more)
ThreadExit(t) ==
    /\ At(t, "idle")
    /\ Goto(t, "terminated", 0)
    /\ UNCHANGED <<thread_local, approxVars, flushingVars, primVars, genericVars>>

\* the programs: one to MaxCounters ApproxCounters, any start and resolution
InitApprox ==
    /\ \E n \in 1..MaxCounters :
         \E starts \in [1..n -> 0..MaxStart], res \in [1..n -> 1..MaxResolution] :
            /\ approx = [c \in 1..n |-> ApproxCounterNew(starts[c], res[c])]
            /\ approx_log = [c \in 1..n |-> NewLog(starts[c])]
    /\ NoFlushing /\ NoPrim /\ NoGeneric
    /\ thread_local = TlInit
    /\ pc = [t \in Threads |-> Idle]

NextApprox ==
    \/ \E t \in Threads, c \in 1..MaxCounters : ApproxInc(t, c)
    \/ \E t \in Threads : ApproxIncSpill(t)
    \/ \E t \in Threads : ApproxIncReset(t)
    \/ \E t \in Threads, c \in 1..MaxCounters : ApproxFlush(t, c)
    \/ \E t \in Threads : ApproxFlushReset(t)
    \/ \E t \in Threads : ThreadExit(t)

SpecApprox == InitApprox /\ [][NextApprox]_vars

\* the programs with a single ApproxCounter
InitApproxOne == InitApprox /\ Len(approx) = 1
SpecApproxOne == InitApproxOne /\ [][NextApprox]_vars

\* `new` stores the resolution as it is given, a usize: 0 is accepted.  The
\* programs whose first ApproxCounter is built with resolution 0 or 1, the
\* others with any resolution from 0
InitApproxUnchecked ==
    /\ \E n \in 1..MaxCounters :
         \E starts \in [1..n -> 0..MaxStart], res \in [1..n -> 0..MaxResolution] :
            /\ res[1] <= 1
            /\ approx = [c \in 1..n |-> ApproxCounterNew(starts[c], res[c])]
            /\ approx_log = [c \in 1..n |-> NewLog(starts[c])]
    /\ NoFlushing /\ NoPrim /\ NoGeneric
    /\ thread_local = TlInit
    /\ pc = [t \in Threads |-> Idle]

SpecApproxUnchecked == InitApproxUnchecked /\ [][NextApprox]_vars

\* ---- primitive::FlushingCounter ----------------------------------------

\* FlushingCounter::new(start)
FlushingCounterNew(start) ==
    [global_counter |-> start,
     thread_local_counter |-> FlushingTlKey]

\* FlushingCounter::get: global_counter.load(Relaxed); the value read is the
\* latest of the accumulator's modification order
FlushingGet(c) == flushing[c].global_counter

\* the calling thread's cell of the counter's thread-local
FlushingTlc(c, t) == TlGet(flushing[c].thread_local_counter, t)

\* (a slip: inc adds to the shared accumulator, not to the thread's cell)
FlushingIncThrough(t, c) ==
    /\ At(t, "idle")
    /\ c \in DOMAIN flushing
    /\ flushing_log[c].incs[t] < MaxIncCalls
    /\ flushing' = [flushing EXCEPT ![c].global_counter = @ + 1]
    /\ flushing_log' = [flushing_log EXCEPT ![c] = LogInc(@, t)]
    /\ UNCHANGED <<thread_local, pc, approxVars, primVars, genericVars>>

\* a thread calls c.inc(): `*tlc.get() += 1;`
FlushingInc(t, c) ==
    /\ At(t, "idle")
    /\ c \in DOMAIN flushing
    /\ flushing_log[c].incs[t] < MaxIncCalls
    /\ thread_local' =
         TlSet(flushing[c].thread_local_counter, t, FlushingTlc(c, t) + 1)
    /\ flushing_log' = [flushing_log EXCEPT ![c] = LogInc(@, t)]
    /\ UNCHANGED <<flushing, pc, approxVars, primVars, genericVars>>

\* (a slip: the flush stores the cell in place of adding it)
FlushingFlushStore(t, c) ==
    /\ At(t, "idle")
    /\ c \in DOMAIN flushing
    /\ flushing' = [flushing EXCEPT ![c].global_counter = FlushingTlc(c, t)]
    /\ Goto(t, "flushing_flush_reset", c)
    /\ flushing_log' =
         [flushing_log EXCEPT ![c] = LogAdd(LogFlush(@, t), "Relaxed")]
    /\ UNCHANGED <<thread_local, approxVars, primVars, genericVars>>

\* a thread calls c.flush():
\* `self.global_counter.fetch_add(*tlc, Ordering::Relaxed);`
FlushingFlush(t, c) ==
    /\ At(t, "idle")
    /\ c \in DOMAIN flushing
    /\ flushing' = [flushing EXCEPT ![c].global_counter = @ + FlushingTlc(c, t)]
    /\ Goto(t, "flushing_flush_reset", c)
    /\ flushing_log' =
         [flushing_log EXCEPT ![c] = LogAdd(LogFlush(@, t), "Relaxed")]
    /\ UNCHANGED <<thread_local, approxVars, primVars, genericVars>>

\* (a slip: the flush returns without the reset of the cell)
FlushingFlushKeep(t) ==
    /\ At(t, "flushing_flush_reset")
    /\ pc' = [pc EXCEPT ![t] = Idle]
    /\ UNCHANGED <<thread_local, flushing, flushing_log, approxVars, primVars,
                   genericVars>>

\* `*tlc = 0;`
FlushingFlushReset(t) ==
    /\ At(t, "flushing_flush_reset")
    /\ thread_local' = TlSet(flushing[pc[t].self].thread_local_counter, t, 0)
    /\ pc' = [pc EXCEPT ![t] = Idle]
    /\ UNCHANGED <<flushing, flushing_log, approxVars, primVars, genericVars>>

\* the programs: one to MaxCounters FlushingCounters, any start
InitFlushing ==
    /\ \E n \in 1..MaxCounters :
         \E starts \in [1..n -> 0..MaxStart] :
            /\ flushing = [c \in 1..n |-> FlushingCounterNew(starts[c])]
            /\ flushing_log = [c \in 1..n |-> NewLog(starts[c])]
    /\ NoApprox /\ NoPrim /\ NoGeneric
    /\ thread_local = TlInit
    /\ pc = [t \in Threads |-> Idle]

NextFlushing ==
    \/ \E t \in Threads, c \in 1..MaxCounters : FlushingInc(t, c)
    \/ \E t \in Threads, c \in 1..MaxCounters : FlushingFlush(t, c)
    \/ \E t \in Threads : FlushingFlushReset(t)
    \/ \E t \in Threads : ThreadExit(t)

SpecFlushing == InitFlushing /\ [][NextFlushing]_vars

\* the programs with a single FlushingCounter
InitFlushingOne == InitFlushing /\ Len(flushing) = 1
SpecFlushingOne == InitFlushingOne /\ [][NextFlushing]_vars

\* a thread calls c.get(): `self.global_counter.load(Ordering::Relaxed)`
FlushingLoad(t, c) ==
    /\ At(t, "idle")
    /\ c \in DOMAIN flushing
    /\ flushing_log' = [flushing_log EXCEPT ![c] = LogRead(@, FlushingGet(c))]
    /\ UNCHANGED <<flushing, thread_local, pc, approxVars, primVars, genericVars>>

\* ---- the buffering counters: a program with one ApproxCounter or with one
\* ---- FlushingCounter, whose threads also call get at any time

InitBuffering == InitApproxOne \/ InitFlushingOne

NextBuffering ==
    \/ NextApprox
    \/ NextFlushing
    \/ \E t \in Threads, c \in 1..MaxCounters : ApproxLoad(t, c)
    \/ \E t \in Threads, c \in 1..MaxCounters : FlushingLoad(t, c)

SpecBuffering == InitBuffering /\ [][NextBuffering]_vars

\* ---- primitive_counter!: CounterU8 and CounterI8 -----------------------
\* (the other widths differ by their bounds only)

PrimTypes == {"CounterU8", "CounterI8"}

\* u8::MAX; AtomicU8::fetch_add wraps around on overflow
U8Max == 255
U8Wrap(x) == x % (U8Max + 1)

\* i8::MIN, i8::MAX; AtomicI8::fetch_add wraps around on overflow
I8Min == -128
I8Max == 127
I8Wrap(x) == ((x - I8Min) % (I8Max - I8Min + 1)) + I8Min

PrimMax(ty) == IF ty = "CounterU8" THEN U8Max ELSE I8Max
PrimMin(ty) == IF ty = "CounterU8" THEN 0 ELSE I8Min

\* (a slip: the addition saturates at the type's maximum)
PrimSaturate(ty, x) == IF x > PrimMax(ty) THEN PrimMax(ty) ELSE x

\* the wrapping addition of the counter's atomic
PrimWrap(ty, x) == IF ty = "CounterU8" THEN U8Wrap(x) ELSE I8Wrap(x)

Orderings == {"Relaxed", "AcqRel", "SeqCst"}

\* $counter::with_ordering(val, ordering); $counter::new(val) uses SeqCst
PrimWithOrdering(ty, val, ordering) ==
    [ty |-> ty, value |-> val, ordering |-> ordering]
PrimNew(ty, val) == PrimWithOrdering(ty, val, "SeqCst")

\* (a slip: get loads with the configured ordering as it is)
LoadOrderingAsIs(o) == o

\* `match self.1 { Ordering::AcqRel => Ordering::Acquire, other => other }`
LoadOrdering(o) == IF o = "AcqRel" THEN "Acquire" ELSE o
\* `match self.1 { Ordering::AcqRel => Ordering::Release, other => other }`
StoreOrdering(o) == IF o = "AcqRel" THEN "Release" ELSE o

\* $counter::get: self.0.load(..)
PrimGet == prim.value

\* the values the callers pass to new, with_ordering and set
PrimValues(ty) ==
    (0..MaxStart) \cup {PrimMin(ty), PrimMax(ty) - 1, PrimMax(ty)}

\* the history of the counter: the value at construction or at the latest
\* set / reset, the inc calls made since and the values they returned, the
\* inc calls per thread, the latest access and its ordering, whether the
\* latest set / reset was a reset, and the constructor call
PrimLog(val) ==
    [base |-> val, incs |-> 0, rets |-> EmptyBag,
     by |-> [t \in Threads |-> 0], op |-> "none", ordering |-> "none",
     reset |-> FALSE, ctor |-> <<"new">>]

\* (a slip: inc as a load followed by a store instead of one fetch_add)
PrimIncTorn(t) ==
    /\ \/ /\ At(t, "idle")
          /\ prim_log.by[t] < MaxIncCalls
          /\ Goto(t, "prim_inc_loaded", prim.value)
          /\ prim_log' = [prim_log EXCEPT !.incs = @ + 1, !.by[t] = @ + 1]
          /\ UNCHANGED prim
       \/ /\ At(t, "prim_inc_loaded")
          /\ prim' = [prim EXCEPT !.value = PrimWrap(prim.ty, pc[t].self + 1)]
          /\ pc' = [pc EXCEPT ![t] = Idle]
          /\ prim_log' = [prim_log EXCEPT !.rets = @ (+) SetToBag({pc[t].self})]
    /\ UNCHANGED <<thread_local, approxVars, flushingVars, genericVars>>

\* a thread calls inc(): `self.0.fetch_add(1, self.1)`, one atomic
\* read-modify-write; the value returned is the previous one
PrimInc(t) ==
    /\ At(t, "idle")
    /\ prim_log.by[t] < MaxIncCalls
    /\ prim' = [prim EXCEPT !.value = PrimWrap(prim.ty, @ + 1)]
    /\ prim_log' = [prim_log EXCEPT !.incs = @ + 1, !.by[t] = @ + 1,
                                    !.rets = @ (+) SetToBag({prim.value}),
                                    !.op = "inc", !.ordering = prim.ordering]
    /\ pc' = [pc EXCEPT ![t] = Idle]
    /\ UNCHANGED <<thread_local, approxVars, flushingVars, genericVars>>

\* a thread calls set(val): `self.0.store(val, ..)`
PrimSet(t, val) ==
    /\ At(t, "idle")
    /\ prim' = [prim EXCEPT !.value = val]
    /\ prim_log' = [prim_log EXCEPT !.base = val, !.incs = 0, !.rets = EmptyBag,
                                    !.op = "set",
                                    !.ordering = StoreOrdering(prim.ordering),
                                    !.reset = FALSE]
    /\ pc' = [pc EXCEPT ![t] = Idle]
    /\ UNCHANGED <<thread_local, approxVars, flushingVars, genericVars>>

\* (a slip: reset stores nothing)
PrimResetNoStore(t) ==
    /\ At(t, "idle")
    /\ prim_log' = [prim_log EXCEPT !.base = 0, !.incs = 0, !.rets = EmptyBag,
                                    !.op = "reset",
                                    !.ordering = StoreOrdering(prim.ordering),
                                    !.reset = TRUE]
    /\ pc' = [pc EXCEPT ![t] = Idle]
    /\ UNCHANGED <<prim, thread_local, approxVars, flushingVars, genericVars>>

\* a thread calls reset(): `self.0.store(0, ..)`
PrimReset(t) ==
    /\ At(t, "idle")
    /\ prim' = [prim EXCEPT !.value = 0]
    /\ prim_log' = [prim_log EXCEPT !.base = 0, !.incs = 0, !.rets = EmptyBag,
                                    !.op = "reset",
                                    !.ordering = StoreOrdering(prim.ordering),
                                    !.reset = TRUE]
    /\ pc' = [pc EXCEPT ![t] = Idle]
    /\ UNCHANGED <<thread_local, approxVars, flushingVars, genericVars>>

\* a thread calls get(): `self.0.load(..)`
PrimLoad(t) ==
    /\ At(t, "idle")
    /\ prim_log' = [prim_log EXCEPT !.op = "get",
                                    !.ordering = LoadOrdering(prim.ordering)]
    /\ UNCHANGED <<prim, pc, thread_local, approxVars, flushingVars, genericVars>>

InitPrimitive ==
    /\ \E ty \in PrimTypes : \E val \in PrimValues(ty) :
          \/ /\ prim = PrimNew(ty, val)
             /\ prim_log = PrimLog(val)
          \/ \E o \in Orderings :
                /\ prim = PrimWithOrdering(ty, val, o)
                /\ prim_log = [PrimLog(val) EXCEPT !.ctor = <<"with_ordering", o>>]
    /\ NoApprox /\ NoFlushing /\ NoGeneric
    /\ thread_local = TlInit
    /\ pc = [t \in Threads |-> Idle]

NextPrimitive ==
    \/ \E t \in Threads : PrimInc(t)
    \/ \E t \in Threads, val \in PrimValues(prim.ty) : PrimSet(t, val)
    \/ \E t \in Threads : PrimReset(t)
    \/ \E t \in Threads : PrimLoad(t)
    \/ \E t \in Threads : ThreadExit(t)

SpecPrimitive == InitPrimitive /\ [][NextPrimitive]_vars

\* ---- generic::Counter<T> (default build: std::sync::Mutex) --------------
\* T is an integer, or the tests' PanicOnClone(i32), whose inc increments
\* the integer inside and whose clone panics; the counts stay far below the
\* integer's maximum.

ValueTypes == {"integer", "PanicOnClone"}

\* `impl Clone for PanicOnClone`: `panic!("PanicOnClone cloned")`
ClonePanics(ty) == ty = "PanicOnClone"

\* `impl Inc for $t`: `*self += 1;`
IncT(v) == v + 1

\* T::default() of the integer types
DefaultT == 0

\* Counter::new(val): Counter(Mutex::new(val)); the mutex is free, not poisoned
GenericNew(ty, val) == [ty |-> ty, data |-> val, owner |-> 0, poisoned |-> FALSE]

GenericOps ==
    {"inc", "set", "reset", "get_cloned", "inc_cloning",
     "get_borrowed", "get_mut_borrowed"}

\* the frame of a call: the method, its argument, the step of inc_cloning
\* ("clone", then "inc"), the clone it took, the value its increment loaded,
\* and whether the calling thread still has a borrow handle alive
Frame(op, val, handle) ==
    [op |-> op, val |-> val,
     step |-> IF op = "inc_cloning" THEN "clone" ELSE op,
     prev |-> 0, tmp |-> 0, handle |-> handle]

\* (a slip: the borrows are made of a clone of the value)
ClonesOnBorrow(f) ==
    f.step \in {"get_cloned", "clone", "get_borrowed", "get_mut_borrowed"}

\* the call (or the step of inc_cloning) clones: `self.lock().clone()`
Clones(f) == f.step \in {"get_cloned", "clone"}

\* the call (or the step of inc_cloning) increments: `self.lock().inc()`
Increments(f) == f.op = "inc" \/ (f.op = "inc_cloning" /\ f.step = "inc")

\* the history of the counter: the value at construction, whether set, reset
\* or a write through a handle happened since, the calls of inc begun and
\* returned, the calls of inc and inc_cloning made, and what followed the
\* latest reset: nothing yet ("zero"), one increment ("one"), or there was no
\* reset or more has happened since ("no"); for the threads that run a fixed
\* sequence of calls, the sequence and the place of the next call in it
GenericLog(val) ==
    [base |-> val, pure |-> TRUE, incs |-> 0, done |-> 0, calls |-> 0,
     reset |-> "no",
     script |-> [t \in Threads |-> <<>>],
     next |-> [t \in Threads |-> 1]]

\* a thread calls a method of the counter and reaches `self.0.lock()`; a
\* thread whose borrow handle is alive may do so too (the handle stays
\* alive).  The call is recorded in the history `log`.
GenericCallFrom(t, op, val, log) ==
    /\ pc[t].at \in {"idle", "borrowed"}
    /\ op \in GenericOps
    /\ val = IF op = "set" THEN val ELSE DefaultT
    /\ op \in {"inc", "inc_cloning"} => generic_log.calls < MaxGenericIncs
    /\ Goto(t, "lock", Frame(op, val, At(t, "borrowed")))
    /\ generic_log' =
         [log EXCEPT
            !.incs = IF op = "inc" THEN @ + 1 ELSE @,
            !.calls = IF op \in {"inc", "inc_cloning"} THEN @ + 1 ELSE @]
    /\ UNCHANGED <<generic, thread_local, approxVars, flushingVars, primVars>>

GenericCall(t, op, val) == GenericCallFrom(t, op, val, generic_log)

\* (a slip: the lock is granted whoever holds it)
GenericLockBroken(t) ==
    /\ At(t, "lock")
    /\ generic' = [generic EXCEPT !.owner = t]
    /\ Goto(t, "locked", pc[t].self)
    /\ UNCHANGED <<generic_log, thread_local, approxVars, flushingVars, primVars>>

\* (the lock of the build with parking_lot, `self.0.lock()`: no poisoning)
GenericLockParkingLot(t) ==
    /\ At(t, "lock")
    /\ generic.owner = 0
    /\ generic' = [generic EXCEPT !.owner = t]
    /\ Goto(t, "locked", pc[t].self)
    /\ UNCHANGED <<generic_log, thread_local, approxVars, flushingVars, primVars>>

\* `self.0.lock().unwrap()`: the mutex is free and the thread acquires it;
\* when the mutex is poisoned, lock() returns Err, unwrap panics and the
\* guard inside the error is dropped
GenericLock(t) ==
    /\ At(t, "lock")
    /\ generic.owner = 0
    /\ IF generic.poisoned
       THEN /\ Goto(t, "panicked", 0)
            /\ UNCHANGED generic
       ELSE /\ generic' = [generic EXCEPT !.owner = t]
            /\ Goto(t, "locked", pc[t].self)
    /\ UNCHANGED <<generic_log, thread_local, approxVars, flushingVars, primVars>>

\* (a slip: the panicking thread's handle is never dropped)
GenericRelockPanicLeak(t) ==
    /\ At(t, "lock")
    /\ generic.owner = t
    /\ generic' = [generic EXCEPT !.poisoned = TRUE]
    /\ Goto(t, "panicked", 0)
    /\ UNCHANGED <<generic_log, thread_local, approxVars, flushingVars, primVars>>

\* lock() by the thread that holds the mutex through its handle: std's lock
\* blocks for ever or panics.  This is the panic: the handle is dropped while
\* the thread unwinds, which poisons and frees the mutex.
GenericRelockPanic(t) ==
    /\ At(t, "lock")
    /\ generic.owner = t
    /\ generic' = [generic EXCEPT !.owner = 0, !.poisoned = TRUE]
    /\ Goto(t, "panicked", 0)
    /\ UNCHANGED <<generic_log, thread_local, approxVars, flushingVars, primVars>>

\* the body of the method, run with the guard alive; a panic of T::clone
\* unwinds through the guard, which poisons and frees the mutex
GenericBody(t) ==
    /\ At(t, "locked")
    /\ LET f == pc[t].self
       IN \/ /\ Increments(f)                     \* T::inc loads the value..
             /\ Goto(t, "inc_store", [f EXCEPT !.tmp = generic.data])
             /\ UNCHANGED <<generic, generic_log>>
          \/ /\ f.op \in {"set", "reset"}         \* `*self.lock() = val;`
             /\ generic' = [generic EXCEPT !.data = f.val]
             /\ generic_log' =
                  [generic_log EXCEPT
                     !.pure = FALSE,
                     !.reset = IF f.op = "reset" THEN "zero" ELSE "no"]
             /\ Goto(t, "unlock", f)
          \/ /\ Clones(f)                         \* `self.lock().clone()`
             /\ ~ClonePanics(generic.ty)
             /\ Goto(t, "unlock", [f EXCEPT !.prev = generic.data])
             /\ UNCHANGED <<generic, generic_log>>
          \/ /\ Clones(f)
             /\ ClonePanics(generic.ty)
             /\ generic' = [generic EXCEPT !.owner = 0, !.poisoned = TRUE]
             /\ Goto(t, "panicked", 0)
             /\ UNCHANGED generic_log
          \/ /\ ~Clones(f)
             /\ f.op \in {"get_borrowed", "get_mut_borrowed"}
             /\ Goto(t, "borrowed", [f EXCEPT !.handle = TRUE])
             /\ UNCHANGED <<generic, generic_log>>
    /\ UNCHANGED <<thread_local, approxVars, flushingVars, primVars>>

\* ..and stores the incremented value: `*self += 1;`
GenericIncStore(t) ==
    /\ At(t, "inc_store")
    /\ generic' = [generic EXCEPT !.data = IncT(pc[t].self.tmp)]
    /\ generic_log' =
         [generic_log EXCEPT !.reset = IF @ = "zero" THEN "one" ELSE "no"]
    /\ Goto(t, "unlock", [pc[t].self EXCEPT !.tmp = 0])
    /\ UNCHANGED <<thread_local, approxVars, flushingVars, primVars>>

\* (a slip: the call returns with the guard still alive)
GenericUnlockLeak(t) ==
    /\ At(t, "unlock")
    /\ pc' = [pc EXCEPT ![t] = Idle]
    /\ UNCHANGED <<generic, generic_log, thread_local, approxVars, flushingVars, primVars>>

\* the guard is dropped at the end of the statement; inc_cloning goes on to
\* `self.inc()` after its get_cloned, every other call returns
GenericUnlock(t) ==
    /\ At(t, "unlock")
    /\ generic' = [generic EXCEPT !.owner = 0]
    /\ LET f == pc[t].self
       IN IF f.step = "clone"
          THEN /\ Goto(t, "lock", [f EXCEPT !.step = "inc"])
               /\ generic_log' = [generic_log EXCEPT !.incs = @ + 1]
          ELSE /\ pc' = [pc EXCEPT ![t] = Idle]
               /\ generic_log' =
                    [generic_log EXCEPT
                       !.done = IF Increments(f) THEN @ + 1 ELSE @]
    /\ UNCHANGED <<thread_local, approxVars, flushingVars, primVars>>

\* the borrow handle goes out of scope
GenericDrop(t) ==
    /\ At(t, "borrowed")
    /\ generic' = [generic EXCEPT !.owner = 0]
    /\ pc' = [pc EXCEPT ![t] = Idle]
    /\ UNCHANGED <<generic_log, thread_local, approxVars, flushingVars, primVars>>

\* the thread writes through its get_mut_borrowed handle
GenericWrite(t, val) ==
    /\ At(t, "borrowed")
    /\ pc[t].self.op = "get_mut_borrowed"
    /\ val # generic.data
    /\ generic' = [generic EXCEPT !.data = val]
    /\ generic_log' = [generic_log EXCEPT !.pure = FALSE, !.reset = "no"]
    /\ UNCHANGED <<pc, thread_local, approxVars, flushingVars, primVars>>

InitGeneric ==
    /\ \E ty \in ValueTypes, val \in 0..MaxStart :
          /\ generic = GenericNew(ty, val)
          /\ generic_log = GenericLog(val)
    /\ NoApprox /\ NoFlushing /\ NoPrim
    /\ thread_local = TlInit
    /\ pc = [t \in Threads |-> Idle]

NextGeneric ==
    \/ \E t \in Threads, op \in GenericOps, val \in 0..MaxStart :
          GenericCall(t, op, val)
    \/ \E t \in Threads : GenericLock(t)
    \/ \E t \in Threads : GenericRelockPanic(t)
    \/ \E t \in Threads : GenericBody(t)
    \/ \E t \in Threads : GenericIncStore(t)
    \/ \E t \in Threads : GenericUnlock(t)
    \/ \E t \in Threads : GenericDrop(t)
    \/ \E t \in Threads, val \in 0..MaxStart : GenericWrite(t, val)
    \/ \E t \in Threads : ThreadExit(t)

SpecGeneric == InitGeneric /\ [][NextGeneric]_vars

\* Scheduling: a thread inside a method keeps running (the body, the store of
\* the increment and the drop of the guard are taken once they can be), and a
\* thread waiting in lock() acquires the mutex if it is free again and again.
\* Nothing obliges a thread to make a call, to drop a borrow handle, or to
\* panic rather than deadlock on a nested lock().
FairGeneric ==
    \A t \in Threads :
        /\ SF_vars(GenericLock(t))
        /\ WF_vars(GenericBody(t))
        /\ WF_vars(GenericIncStore(t))
        /\ WF_vars(GenericUnlock(t))

\* the programs checked under this scheduling: a counter started at T's
\* default (as global_default_counter! builds it), set called with the
\* default, no write through a handle, threads that never exit
InitGenericFair == InitGeneric /\ generic.data = DefaultT

NextGenericFair ==
    \/ \E t \in Threads, op \in GenericOps : GenericCall(t, op, DefaultT)
    \/ \E t \in Threads : GenericLock(t)
    \/ \E t \in Threads : GenericRelockPanic(t)
    \/ \E t \in Threads : GenericBody(t)
    \/ \E t \in Threads : GenericIncStore(t)
    \/ \E t \in Threads : GenericUnlock(t)
    \/ \E t \in Threads : GenericDrop(t)

SpecGenericFair == InitGenericFair /\ [][NextGenericFair]_vars /\ FairGeneric

\* ---- the programs of the documentation of get_borrowed ("at most one
\* ---- concurrent access per thread"): every thread runs a fixed sequence
\* ---- of calls on a counter built by global_default_counter!, drops the
\* ---- handle of a borrow before its next call, and returns when the
\* ---- sequence is done.

\* the example's closure: `COUNTER.inc(); let value_borrowed =
\* COUNTER.get_borrowed(); assert!(..);`
GoodScript == <<"inc", "get_borrowed">>

\* the sequences a thread may run: the example's, and one that sets and clones
Scripts == {GoodScript, <<"reset", "get_cloned">>}

ScriptLeft(t) == generic_log.next[t] <= Len(generic_log.script[t])

\* the thread makes the next call of its sequence
ScriptCall(t) ==
    /\ At(t, "idle")
    /\ ScriptLeft(t)
    /\ GenericCallFrom(t, generic_log.script[t][generic_log.next[t]], DefaultT,
                       [generic_log EXCEPT !.next[t] = @ + 1])

\* the closure returns: the sequence is done and no handle is alive
ScriptExit(t) ==
    /\ ~ScriptLeft(t)
    /\ ThreadExit(t)

InitScripted ==
    /\ \E ty \in ValueTypes, scripts \in [Threads -> Scripts] :
          /\ generic = GenericNew(ty, DefaultT)
          /\ generic_log = [GenericLog(DefaultT) EXCEPT !.script = scripts]
    /\ NoApprox /\ NoFlushing /\ NoPrim
    /\ thread_local = TlInit
    /\ pc = [t \in Threads |-> Idle]

NextScripted ==
    \/ \E t \in Threads : ScriptCall(t)
    \/ \E t \in Threads : GenericLock(t)
    \/ \E t \in Threads : GenericBody(t)
    \/ \E t \in Threads : GenericIncStore(t)
    \/ \E t \in Threads : GenericUnlock(t)
    \/ \E t \in Threads : GenericDrop(t)
    \/ \E t \in Threads : ScriptExit(t)

\* Scheduling: a spawned thread runs its closure to the end: each of its
\* steps is taken once it can be, and a thread waiting in lock() acquires
\* the mutex if it is free again and again.
FairScripted ==
    \A t \in Threads :
        /\ WF_vars(ScriptCall(t))
        /\ SF_vars(GenericLock(t))
        /\ WF_vars(GenericBody(t))
        /\ WF_vars(GenericIncStore(t))
        /\ WF_vars(GenericUnlock(t))
        /\ WF_vars(GenericDrop(t))
        /\ WF_vars(ScriptExit(t))

SpecScripted == InitScripted /\ [][NextScripted]_vars /\ FairScripted

\* ---- the exact counters: a program with one primitive counter or with
\* ---- one generic counter

HasPrim == DOMAIN prim # {}
HasGeneric == DOMAIN generic # {}

InitExact == InitPrimitive \/ InitGeneric

NextExact ==
    \/ HasPrim /\ NextPrimitive
    \/ HasGeneric /\ NextGeneric

SpecExact == InitExact /\ [][NextExact]_vars

\* ---- ApproxCounter: the error bound of get ------------------------------

ApproxIncLabels == {"approx_inc_spill", "approx_inc_reset"}
ApproxFlushLabels == {"approx_flush_reset"}

\* the threads part-way through inc (resp. flush) on counter c
ApproxInInc(c) == {t \in Threads : pc[t].at \in ApproxIncLabels /\ pc[t].self = c}
ApproxInFlush(c) == {t \in Threads : pc[t].at \in ApproxFlushLabels /\ pc[t].self = c}

\* |get() - (start + inc calls called so far)|
ApproxError(c) ==
    Abs(ApproxGet(c) - (approx_log[c].start + IncCalls(approx_log[c])))

\* N * (R - 1)
ApproxBound(c) ==
    Cardinality(IncThreads(approx_log[c])) * (approx[c].threshold - 1)

\* C1 as stated: with one ApproxCounter in the program, in every reachable
\* state, threads part-way through inc or flush included, get() is within
\* N * (R - 1) of start + the number of inc calls called so far.
C1_AsStated ==
    Len(approx) = 1 => \A c \in DOMAIN approx : ApproxError(c) <= ApproxBound(c)

\* C1 as amended: with one ApproxCounter in the program, in every reachable
\* state get() is within N * (R - 1) + (the number of inc calls part-way
\* through) of start + the number of inc calls called so far; so the bound
\* N * (R - 1) holds whenever no inc is part-way through, flushes allowed.
C1_ErrorBound ==
    Len(approx) = 1 =>
        \A c \in DOMAIN approx :
            ApproxError(c) <= ApproxBound(c) + Cardinality(ApproxInInc(c))

\* C1 witness: one counter of resolution 2, every thread has called inc, one
\* is part-way through a spilling inc (its cell holds 2, not yet added to the
\* shared accumulator), and the error is at the amended bound, above N*(R-1).
C1_Witness ==
    /\ Len(approx) = 1
    /\ approx[1].threshold = 2
    /\ IncThreads(approx_log[1]) = Threads
    /\ \E t \in Threads : At(t, "approx_inc_spill")
    /\ ApproxError(1) = ApproxBound(1) + Cardinality(ApproxInInc(1))
    /\ ApproxError(1) > ApproxBound(1)

\* no thread is part-way through an operation
Quiescent == \A t \in Threads : pc[t].at \in {"idle", "terminated"}

\* C2 as stated: an ApproxCounter with start 0 and resolution R; once T
\* threads have each completed K inc calls and no thread has called flush,
\* get() is within T * (R - 1) of T * K.
C2_AsStated ==
    \A c \in DOMAIN approx :
        LET T == IncThreads(approx_log[c])
        IN \A K \in 1..MaxIncCalls :
            ( /\ approx_log[c].start = 0
              /\ T # {}
              /\ \A t \in T : approx_log[c].incs[t] = K
              /\ \A d \in DOMAIN approx : approx_log[d].flushers = {}
              /\ Quiescent )
            => Abs(ApproxGet(c) - Cardinality(T) * K)
                   <= Cardinality(T) * (approx[c].threshold - 1)

\* C3 as stated: when every thread that called inc on an ApproxCounter has
\* called flush on it after its last inc, and no inc or flush is part-way
\* through, get() = start + the number of inc calls.
C3_AsStated ==
    ( /\ Quiescent
      /\ \A d \in DOMAIN approx : approx_log[d].dirty = {} )
    => \A c \in DOMAIN approx :
           ApproxGet(c) = approx_log[c].start + IncCalls(approx_log[c])

\* C4 as stated: with no inc or flush part-way through, a FlushingCounter's
\* get() = start + the number of inc calls exactly when every thread that
\* called inc on it has called flush on it after its last inc.
C4_AsStated ==
    Quiescent =>
        \A c \in DOMAIN flushing :
            (FlushingGet(c) = flushing_log[c].start + IncCalls(flushing_log[c]))
                <=> (flushing_log[c].dirty = {})

\* C5 as stated: in every reachable state a FlushingCounter's get() is at
\* most start + the number of inc calls made on that counter.
C5_AsStated ==
    \A c \in DOMAIN flushing :
        FlushingGet(c) <= flushing_log[c].start + IncCalls(flushing_log[c])

\* thread t takes a step of an operation on ApproxCounter a
ApproxActsOn(t, a) ==
    /\ pc[t] # pc'[t] \/ approx_log[a] # approx_log'[a]
    /\ pc[t].self = a \/ pc'[t].self = a \/ approx_log[a] # approx_log'[a]

\* C6 as stated: for two distinct ApproxCounters a and b, a step of inc or
\* flush on a by a thread leaves the private accumulator that b's inc and
\* flush use for that thread unchanged.
C6_AsStated ==
    [][\A t \in Threads : \A a, b \in DOMAIN approx :
          (a # b /\ ApproxActsOn(t, a)) => ApproxTlc(b, t)' = ApproxTlc(b, t)]_vars

\* C7: N inc calls on a primitive counter by any threads in any order, with
\* no set or reset in between and no overflow, leave it at the value it had
\* plus N once all calls have completed.
C7_NoLostIncrement ==
    (Quiescent /\ prim_log.base + prim_log.incs <= PrimMax(prim.ty))
        => PrimGet = prim_log.base + prim_log.incs

\* C7 witness: every thread has made MaxIncCalls inc calls since the latest
\* set, none overflowed, and the counter holds the value set plus all of them.
C7_Witness ==
    /\ Quiescent
    /\ \A t \in Threads : prim_log.by[t] = MaxIncCalls
    /\ prim_log.incs = NumThreads * MaxIncCalls
    /\ prim_log.base + prim_log.incs <= PrimMax(prim.ty)
    /\ PrimGet = prim_log.base + NumThreads * MaxIncCalls

\* C8: N inc calls on a generic counter by any threads in any order, with no
\* set, reset or write through a handle, leave the interior value at the
\* initial value incremented N times once all the calls have returned.
C8_NoLostIncrement ==
    (generic_log.pure /\ generic_log.incs = generic_log.done)
        => generic.data = generic_log.base + generic_log.incs

\* C8 witness: MaxGenericIncs calls of inc or inc_cloning have been made, all
\* have returned, and the value is the initial one plus all of them.
C8_Witness ==
    /\ generic_log.pure
    /\ generic_log.incs = MaxGenericIncs
    /\ generic_log.done = generic_log.incs
    /\ generic.data = generic_log.base + MaxGenericIncs

\* thread t has a borrow handle alive
HasHandle(t) ==
    \/ At(t, "borrowed")
    \/ At(t, "lock") /\ pc[t].self.handle

\* thread t holds access to the interior value: inside a method with the
\* guard alive, or through a borrow handle
HoldsAccess(t) ==
    \/ pc[t].at \in {"locked", "inc_store", "unlock"}
    \/ HasHandle(t)

\* at most one thread holds access to the interior value
MutualExclusion == Cardinality({t \in Threads : HoldsAccess(t)}) <= 1

\* a step of another thread u while t's handle stays alive leaves the value
\* as it was
HandleStable ==
    \A t \in Threads :
        (HasHandle(t) /\ HasHandle(t)') =>
            \A u \in Threads \ {t} :
                pc'[u] # pc[u] => generic'.data = generic.data

\* C9: in every reachable state at most one thread holds access to the
\* interior value, and while a thread's borrow handle is alive no step of
\* another thread changes the value.
C9_MutualExclusion == []MutualExclusion /\ [][HandleStable]_vars

\* C9 witness: one thread has a get_mut_borrowed handle alive and has written
\* through it, while another thread waits in lock() for a set.
C9_Witness ==
    \E t \in Threads, u \in Threads :
        /\ t # u
        /\ At(t, "borrowed") /\ pc[t].self.op = "get_mut_borrowed"
        /\ ~generic_log.pure
        /\ At(u, "lock") /\ pc[u].self.op = "set"
        /\ pc[u].self.val # generic.data

\* C10 as stated: with no set, reset or write through a handle, the value
\* inc_cloning returns (its clone) is the value the counter holds immediately
\* before the increment of that same call, also with other threads calling
\* inc or inc_cloning concurrently.
C10_AsStated ==
    \A t \in Threads :
        (generic_log.pure /\ At(t, "inc_store") /\ pc[t].self.op = "inc_cloning")
            => pc[t].self.prev = pc[t].self.tmp

\* C11: inc of a primitive counter is one fetch-and-add that returns the
\* previous value: once N inc calls made by any threads on a counter holding
\* s (no set or reset in between, no overflow) have completed, the values
\* they returned are exactly s, s+1, .., s+N-1, each once.
C11_ReturnsPrevious ==
    (Quiescent /\ prim_log.base + prim_log.incs <= PrimMax(prim.ty))
        => prim_log.rets =
               SetToBag(prim_log.base .. (prim_log.base + prim_log.incs - 1))

\* C11 witness: both threads have made MaxIncCalls inc calls on a counter set
\* to s > 0, and the calls returned s, .., s + NumThreads * MaxIncCalls - 1.
C11_Witness ==
    /\ Quiescent
    /\ prim_log.base > 0
    /\ \A t \in Threads : prim_log.by[t] = MaxIncCalls
    /\ BagCardinality(prim_log.rets) = NumThreads * MaxIncCalls
    /\ \A v \in prim_log.base .. (prim_log.base + NumThreads * MaxIncCalls - 1) :
           CopiesIn(v, prim_log.rets) = 1

\* thread t has called a method of the counter while its borrow handle is
\* alive, and is inside that call
NestedCall(t) ==
    /\ pc[t].at \in {"lock", "locked", "inc_store", "unlock"}
    /\ pc[t].self.handle

\* a step of a thread inside a nested call ends the call in a panic and
\* leaves the interior value as it was
NestedCallFails ==
    \A t \in Threads :
        (NestedCall(t) /\ pc'[t] # pc[t]) =>
            (pc'[t].at = "panicked" /\ generic'.data = generic.data)

\* C12: a call of any method of the counter by a thread whose borrow handle
\* is alive is never granted access (it never reaches the body of the method,
\* so it neither reads nor changes the value): it stays blocked in lock() or
\* ends in a panic.
C12_NestedNeverGranted ==
    /\ [](\A t \in Threads : NestedCall(t) => At(t, "lock"))
    /\ [][NestedCallFails]_vars

\* C12 witness: a thread with a get_borrowed handle alive has called set with
\* a value other than the current one and is blocked in lock() on the mutex
\* it holds itself.
C12_Witness ==
    \E t \in Threads :
        /\ NestedCall(t)
        /\ generic.owner = t
        /\ pc[t].self.op = "set"
        /\ pc[t].self.val # generic.data
        /\ generic_log.pure

\* no borrow handle is alive
NoHandle == \A u \in Threads : ~HasHandle(u)

\* thread t is inside a call made without a borrow handle of its own
InCall(t) ==
    /\ pc[t].at \in {"lock", "locked", "inc_store", "unlock"}
    /\ ~pc[t].self.handle

\* a thread outside every call and without a handle does not hold the mutex
ReleasedOnReturn ==
    \A t \in Threads :
        pc[t].at \in {"idle", "terminated", "panicked"} => generic.owner # t

\* some thread inside a call can take its next step
CallProgress ==
    \E t \in Threads :
        GenericLock(t) \/ GenericBody(t) \/ GenericIncStore(t) \/ GenericUnlock(t)

\* with no handle alive, threads inside calls are never all blocked
NoDeadlock == (NoHandle /\ \E t \in Threads : InCall(t)) => ENABLED CallProgress

C14_ResetToDefault ==
    /\ HasPrim => (prim_log.reset => PrimGet = prim_log.incs)
    /\ HasGeneric =>
          /\ generic_log.reset = "zero" => generic.data = DefaultT
          /\ generic_log.reset = "one" => generic.data = IncT(DefaultT)

\* C14 witness: a generic counter built with 1 went through two completed
\* incs, then a reset and one more completed inc, and holds 1.
C14_Witness ==
    /\ HasGeneric
    /\ generic_log.base = 1
    /\ generic_log.done = 3
    /\ generic_log.reset = "one"
    /\ Quiescent
    /\ generic.data = 1

\* every inc and flush made on the counters of logs was made by thread t
OnlyThread(logs, t) ==
    \A d \in DOMAIN logs :
        IncThreads(logs[d]) \cup logs[d].flushers \subseteq {t}

\* a buffering counter started at 0 and used by one thread only, whose latest
\* call on it is a flush after N >= 1 incs, reads N
FlushedReadsN(value, logs) ==
    \A c \in DOMAIN logs : \A t \in Threads :
        ( /\ Quiescent
          /\ OnlyThread(logs, t)
          /\ logs[c].start = 0
          /\ IncCalls(logs[c]) >= 1
          /\ logs[c].dirty = {} )
        => value[c] = IncCalls(logs[c])

\* C15 as stated: a counter of any type started at 0 and used by one thread:
\* a primitive counter reads the number of incs made so far, a generic
\* counter the number of incs once they have returned, and an ApproxCounter
\* or FlushingCounter reads N once the thread has called flush after its Nth
\* inc.
C15_AsStated ==
    /\ (HasPrim /\ prim_log.base = 0 /\ ~prim_log.reset
            /\ \E t \in Threads : \A u \in Threads \ {t} : prim_log.by[u] = 0)
          => PrimGet = prim_log.incs
    /\ (HasGeneric /\ generic_log.base = 0 /\ generic_log.pure
            /\ generic_log.incs = generic_log.done)
          => generic.data = generic_log.incs
    /\ FlushedReadsN([c \in DOMAIN approx |-> ApproxGet(c)], approx_log)
    /\ FlushedReadsN([c \in DOMAIN flushing |-> FlushingGet(c)], flushing_log)

\* thread t is inside a call of get_borrowed or get_mut_borrowed, made with
\* no borrow handle of its own alive, on a counter whose T's clone panics
BorrowCall(t) ==
    /\ pc[t].at \in {"lock", "locked"}
    /\ pc[t].self.op \in {"get_borrowed", "get_mut_borrowed"}
    /\ ~pc[t].self.handle
    /\ ClonePanics(generic.ty)

\* C16 as stated: with a T whose clone panics, no step of a call of
\* get_borrowed or get_mut_borrowed by a thread holding no other borrow ends
\* in a panic.
C16_AsStated ==
    [][\A t \in Threads : BorrowCall(t) => pc'[t].at # "panicked"]_vars

\* C16 as amended: with a T whose clone panics, a step of such a call ends
\* in a panic only when the mutex is poisoned; otherwise the call, once it is
\* granted the mutex, gets its handle on the value itself, which it leaves
\* unchanged, and only the thread that owns the mutex has a handle.
C16_BorrowDoesNotClone ==
    /\ [][\A t \in Threads :
            (BorrowCall(t) /\ ~generic.poisoned) =>
                /\ pc'[t].at # "panicked"
                /\ pc'[t].at \in {"lock", "locked", "borrowed"}
                /\ generic'.data = generic.data \/ pc'[t] = pc[t]]_vars
    /\ [](\A t \in Threads : At(t, "borrowed") => generic.owner = t)

\* C16 witness: a thread holds a get_mut_borrowed handle on a counter of
\* PanicOnClone that holds 1; the mutex is not poisoned.
C16_Witness ==
    \E t \in Threads :
        /\ ClonePanics(generic.ty)
        /\ At(t, "borrowed")
        /\ pc[t].self.op = "get_mut_borrowed"
        /\ generic.owner = t
        /\ generic.data = 1
        /\ ~generic.poisoned

\* C17: new configures SeqCst and with_ordering(val, o) configures o; the
\* latest access used: for get, Acquire when the configured ordering is
\* AcqRel and the configured ordering otherwise; for set and reset, Release
\* when it is AcqRel and the configured ordering otherwise; for inc, the
\* configured ordering unchanged.
C17_Orderings ==
    /\ prim_log.ctor = <<"new">> => prim.ordering = "SeqCst"
    /\ \A o \in {"Relaxed", "AcqRel", "SeqCst"} :
          /\ prim_log.ctor = <<"with_ordering", o>> => prim.ordering = o
          /\ prim.ordering = o =>
                /\ prim_log.op = "get" =>
                      prim_log.ordering = IF o = "AcqRel" THEN "Acquire" ELSE o
                /\ prim_log.op \in {"set", "reset"} =>
                      prim_log.ordering = IF o = "AcqRel" THEN "Release" ELSE o
                /\ prim_log.op = "inc" => prim_log.ordering = o

\* C17 witness: a counter built by with_ordering(val, AcqRel) whose latest
\* access is a get, made with Acquire, after incs by every thread.
C17_Witness ==
    /\ prim_log.ctor = <<"with_ordering", "AcqRel">>
    /\ prim_log.op = "get"
    /\ prim_log.ordering = "Acquire"
    /\ \A t \in Threads : prim_log.by[t] > 0

\* C18 as stated: every addition into the shared accumulator of an
\* ApproxCounter (by a spilling inc or by flush) or of a FlushingCounter (by
\* flush) is made with the SeqCst ordering.
C18_AsStated ==
    /\ \A c \in DOMAIN approx : approx_log[c].adds \subseteq {"SeqCst"}
    /\ \A c \in DOMAIN flushing : flushing_log[c].adds \subseteq {"SeqCst"}

\* v is the value of the integer n in the w-bit type with the bounds lo, hi
Represents(v, n, lo, hi) == v \in lo..hi /\ (n - v) % (hi - lo + 1) = 0

\* C19: an inc on a primitive counter holding its type's maximum returns the
\* maximum and leaves the counter at the type's minimum (CounterU8: 255 -> 0,
\* CounterI8: 127 -> -128), no thread panics, and the value after k incs from
\* s is s + k modulo 2^8 in the type's range.
C19_Wraps ==
    /\ \A t \in Threads : pc[t].at # "panicked"
    /\ (prim.ty = "CounterU8" /\ prim_log.base = 255 /\ prim_log.incs = 1)
          => (PrimGet = 0 /\ prim_log.rets = SetToBag({255}))
    /\ (prim.ty = "CounterI8" /\ prim_log.base = 127 /\ prim_log.incs = 1)
          => (PrimGet = -128 /\ prim_log.rets = SetToBag({127}))
    /\ prim.ty = "CounterU8"
          => Represents(PrimGet, prim_log.base + prim_log.incs, 0, 255)
    /\ prim.ty = "CounterI8"
          => Represents(PrimGet, prim_log.base + prim_log.incs, -128, 127)

\* C19 witness: a CounterI8 set to 127 has been incremented by every thread
\* MaxIncCalls times and holds -128 + NumThreads * MaxIncCalls - 1.
C19_Witness ==
    /\ prim.ty = "CounterI8"
    /\ prim_log.base = 127
    /\ \A t \in Threads : prim_log.by[t] = MaxIncCalls
    /\ prim_log.incs = NumThreads * MaxIncCalls
    /\ PrimGet = -128 + NumThreads * MaxIncCalls - 1
    /\ CopiesIn(127, prim_log.rets) = 1
    /\ CopiesIn(-128, prim_log.rets) = 1

\* thread t completes an inc on ApproxCounter c in this step
ApproxIncCompletes(t, c) ==
    /\ \/ pc[t].at \in ApproxIncLabels /\ pc[t].self = c
       \/ approx_log'[c].incs[t] = approx_log[c].incs[t] + 1
    /\ pc'[t].at = "idle"

\* C20 as stated: for an ApproxCounter of resolution 1, the calling thread's
\* private accumulator is 0 when an inc completes, and in every state with no
\* inc in progress and no flush called get() = start + the number of inc
\* calls made on it, whatever the number of threads.
C20_AsStated ==
    /\ [][\A t \in Threads : \A c \in DOMAIN approx :
            (approx[c].threshold = 1 /\ ApproxIncCompletes(t, c))
                => ApproxTlc(c, t)' = 0]_vars
    /\ [](\A c \in DOMAIN approx :
            ( /\ approx[c].threshold = 1
              /\ \A d \in DOMAIN approx :
                    ApproxInInc(d) = {} /\ approx_log[d].flushers = {} )
            => ApproxGet(c) = approx_log[c].start + IncCalls(approx_log[c]))

\* thread t takes the spill step of an inc on ApproxCounter c
ApproxSpillStep(t, c) ==
    /\ At(t, "approx_inc_spill")
    /\ pc[t].self = c
    /\ pc'[t].at = "approx_inc_reset"

\* C21 as stated: for an ApproxCounter of resolution R >= 1, whenever a
\* thread is not inside inc the private accumulator the counter uses
\* for that thread is in 0 .. R-1, and every spill adds exactly R to the
\* shared accumulator and leaves the private accumulator at 0 when the inc
\* returns.
C21_AsStated ==
    /\ [](\A c \in DOMAIN approx : \A t \in Threads :
            pc[t].at \notin ApproxIncLabels =>
                ApproxTlc(c, t) \in 0..(approx[c].threshold - 1))
    /\ [][\A c \in DOMAIN approx : \A t \in Threads :
            /\ ApproxSpillStep(t, c) =>
                  approx'[c].global_counter =
                      approx[c].global_counter + approx[c].threshold
            /\ (At(t, "approx_inc_reset") /\ pc[t].self = c /\ pc'[t].at = "idle")
                  => ApproxTlc(c, t)' = 0]_vars

\* a step in which thread t begins an inc on the counter of the log
ApproxIncStep(t, c) == approx_log'[c].incs[t] # approx_log[c].incs[t]
FlushingIncStep(t, c) == flushing_log'[c].incs[t] # flushing_log[c].incs[t]

\* a step in which a get on the counter returns another value than the
\* latest get did
ApproxLoadStep(c) == approx_log'[c].read # approx_log[c].read
FlushingLoadStep(c) == flushing_log'[c].read # flushing_log[c].read

\* C22: inc touches the shared accumulator only when spilling.  A
\* FlushingCounter's inc never changes its shared accumulator, which changes
\* only in the fetch_add of a flush; an ApproxCounter's inc whose private
\* accumulator after the +1 is below the threshold returns with the shared
\* accumulator unchanged, which changes only in the fetch_add of a spill or
\* of a flush; a get changes no counter and no private accumulator.
C22_IncBuffers ==
    [][/\ \A c \in DOMAIN flushing :
            /\ \A t \in Threads :
                  FlushingIncStep(t, c) =>
                      /\ flushing' = flushing
                      /\ pc'[t] = Idle
            /\ FlushingGet(c)' # FlushingGet(c) =>
                  \E t \in Threads : At(t, "idle") /\ pc'[t].at = "flushing_flush_reset"
            /\ FlushingLoadStep(c) =>
                  flushing' = flushing /\ thread_local' = thread_local
       /\ \A c \in DOMAIN approx :
            /\ \A t \in Threads :
                  (/\ ApproxIncStep(t, c)
                   /\ ApproxTlc(c, t)' < approx[c].threshold) =>
                      /\ approx' = approx
                      /\ pc'[t] = Idle
            /\ ApproxGet(c)' # ApproxGet(c) =>
                  \E t \in Threads :
                      \/ At(t, "approx_inc_spill") /\ pc[t].self = c
                      \/ At(t, "idle") /\ pc'[t].at = "approx_flush_reset"
            /\ ApproxLoadStep(c) =>
                  approx' = approx /\ thread_local' = thread_local]_vars

\* incs have been called on a FlushingCounter, none flushed, and a get since
\* returned the start value
C22_Witness ==
    \E c \in DOMAIN flushing :
        /\ IncCalls(flushing_log[c]) = MaxIncCalls
        /\ flushing_log[c].flushers = {}
        /\ flushing_log[c].read = flushing_log[c].start
        /\ \E t \in Threads : FlushingTlc(c, t) > 0

\* the cells of the threads other than t are left as they are
OthersKeep(t) ==
    \A k \in TlKeys : \A u \in Threads \ {t} :
        thread_local'[k][u] = thread_local[k][u]

\* thread t has flushed counter c, its calls have returned, and on no
\* counter of the logs is its latest call an inc
JustFlushed(logs, c, t) ==
    /\ At(t, "idle")
    /\ t \in logs[c].flushers
    /\ \A d \in DOMAIN logs : t \notin logs[d].dirty

\* C23: a flush adds exactly the calling thread's private accumulator to
\* the shared accumulator, whatever it holds, and then sets it to 0; the
\* private accumulators of the other threads are left unchanged; a flush
\* called by a thread that has flushed the counter and called no inc since
\* adds nothing.
C23_FlushExact ==
    [][\A t \in Threads :
        /\ \A c \in DOMAIN flushing :
            /\ (At(t, "idle") /\ pc'[t] = [at |-> "flushing_flush_reset", self |-> c]) =>
                  /\ FlushingGet(c)' = FlushingGet(c) + FlushingTlc(c, t)
                  /\ thread_local' = thread_local
                  /\ JustFlushed(flushing_log, c, t) => FlushingGet(c)' = FlushingGet(c)
            /\ (pc[t] = [at |-> "flushing_flush_reset", self |-> c] /\ pc'[t] # pc[t]) =>
                  /\ FlushingTlc(c, t)' = 0
                  /\ OthersKeep(t)
                  /\ flushing' = flushing
                  /\ pc'[t] = Idle
        /\ \A c \in DOMAIN approx :
            /\ (At(t, "idle") /\ pc'[t] = [at |-> "approx_flush_reset", self |-> c]) =>
                  /\ ApproxGet(c)' = ApproxGet(c) + ApproxTlc(c, t)
                  /\ thread_local' = thread_local
                  /\ JustFlushed(approx_log, c, t) => ApproxGet(c)' = ApproxGet(c)
            /\ (pc[t] = [at |-> "approx_flush_reset", self |-> c] /\ pc'[t] # pc[t]) =>
                  /\ ApproxTlc(c, t)' = 0
                  /\ OthersKeep(t)
                  /\ approx' = approx
                  /\ pc'[t] = Idle]_vars

\* a thread that called inc and flushed is in a second flush, which added 0,
\* while another thread's private accumulator holds an increment
C23_Witness ==
    \E c \in DOMAIN flushing : \E t \in Threads :
        /\ pc[t] = [at |-> "flushing_flush_reset", self |-> c]
        /\ flushing_log[c].incs[t] > 0
        /\ FlushingTlc(c, t) = 0
        /\ FlushingGet(c) = flushing_log[c].start + flushing_log[c].incs[t]
        /\ \E u \in Threads \ {t} : FlushingTlc(c, u) > 0

\* thread t called inc on the counter of the log, never flushed it, and has
\* terminated
StoppedUnflushed(log, t) ==
    /\ At(t, "terminated")
    /\ log.incs[t] > 0
    /\ t \notin log.flushers

\* C24 as stated: a thread that stops without calling flush leaves its
\* private accumulator (at most threshold - 1 for an ApproxCounter, any
\* amount for a FlushingCounter) invisible for ever: the private accumulator
\* keeps its contents, no step adds them to the shared accumulator, and get
\* stays short of start + inc calls by at least that amount in every later
\* state.
C24_AsStated ==
    /\ [](\A t \in Threads :
            /\ \A c \in DOMAIN approx :
                  StoppedUnflushed(approx_log[c], t) =>
                      /\ ApproxTlc(c, t) <= approx[c].threshold - 1
                      /\ ApproxGet(c) <= approx_log[c].start
                             + IncCalls(approx_log[c]) - ApproxTlc(c, t)
            /\ \A c \in DOMAIN flushing :
                  StoppedUnflushed(flushing_log[c], t) =>
                      FlushingGet(c) <= flushing_log[c].start
                          + IncCalls(flushing_log[c]) - FlushingTlc(c, t))
    /\ [][\A t \in Threads : \A k \in TlKeys :
            At(t, "terminated") =>
                /\ thread_local'[k][t] = thread_local[k][t]
                /\ pc'[t] = pc[t]]_vars

\* the mutex is held by a thread that holds access, never by a thread that
\* returned, panicked or terminated
OwnerHolds == \A t \in Threads : generic.owner = t => HoldsAccess(t)

\* a step in which the holder stops holding access (return, drop of the
\* handle, panic) frees the mutex
ReleasedOnExit ==
    \A t \in Threads :
        (generic.owner = t /\ ~HoldsAccess(t)') => generic'.owner = 0

\* thread t waits in lock() while the mutex is poisoned: a holder panicked
WaitsAfterPanic(t) == At(t, "lock") /\ generic.poisoned

\* C25: the access to the interior value taken by a method or by a borrow
\* handle is released on every exit path of the holder, the panics included
\* (T's clone panics, lock() by the thread that holds a handle panics): the
\* mutex is never left held by a thread that holds no access, and under fair
\* scheduling a thread waiting in lock() after a holder's panic does not wait
\* for ever.
C25_ReleasedOnPanic ==
    /\ []OwnerHolds
    /\ [][ReleasedOnExit]_vars
    /\ \A t \in Threads : WaitsAfterPanic(t) ~> ~At(t, "lock")

\* C25 witness: a thread panicked while holding access, the mutex is free
\* again, and another thread waits in lock().
C25_Witness ==
    \E t \in Threads, u \in Threads :
        /\ At(u, "panicked")
        /\ generic.poisoned
        /\ generic.owner = 0
        /\ WaitsAfterPanic(t)

\* every thread runs the example's closure
GoodExample == \A t \in Threads : generic_log.script[t] = GoodScript

\* every thread's closure has returned
AllFinished == \A t \in Threads : At(t, "terminated")

\* C26: a counter started at 0 and N threads that each call inc once and
\* then read the value through get_borrowed, with one access per thread at a
\* time: the value a thread reads through its handle is between 1 and N, a
\* thread can take a step as long as some thread has not finished, once all
\* threads have finished the value is N, and under fair scheduling they all
\* finish.
C26_GoodExample ==
    /\ [](GoodExample =>
            /\ \A t \in Threads : At(t, "borrowed") => generic.data \in 1..NumThreads
            /\ ~AllFinished => ENABLED NextScripted
            /\ AllFinished => generic.data = NumThreads)
    /\ (GoodExample ~> AllFinished)

\* C26 witness: in the example one thread reads N through its handle, the
\* others have finished.
C26_Witness ==
    /\ GoodExample
    /\ \E t \in Threads :
          /\ At(t, "borrowed")
          /\ generic.data = NumThreads
          /\ \A u \in Threads \ {t} : At(u, "terminated")

\* the sum of all threads' cells of a thread-local, terminated threads included
PrivateSum(key) == SumOver(thread_local[key], Threads)

\* C27: conservation for one buffering counter: in every state in which no
\* inc or flush is part-way through, the shared accumulator plus the sum of
\* the private accumulators of all threads, living or terminated, is start +
\* the number of inc calls made.
C27_Conservation ==
    Quiescent =>
        /\ Len(approx) = 1 =>
              ApproxGet(1) + PrivateSum(approx[1].thread_local_counter)
                  = approx_log[1].start + IncCalls(approx_log[1])
        /\ Len(flushing) = 1 =>
              FlushingGet(1) + PrivateSum(flushing[1].thread_local_counter)
                  = flushing_log[1].start + IncCalls(flushing_log[1])

\* C27 witness: one ApproxCounter of resolution 2; a thread has terminated
\* with 1 in its private accumulator, another has spilled 2 and flushed.
C27_Witness ==
    /\ Quiescent
    /\ Len(approx) = 1
    /\ approx[1].threshold = 2
    /\ ApproxGet(1) = approx_log[1].start + 2
    /\ \E t \in Threads, u \in Threads :
          /\ At(t, "terminated") /\ ApproxTlc(1, t) = 1
          /\ t # u /\ approx_log[1].incs[u] = 2 /\ u \in approx_log[1].flushers

\* C28: the shared accumulator of an ApproxCounter and of a FlushingCounter
\* never decreases: no step of inc or flush by any thread lowers what get
\* returns, so a get returns at least what every earlier get on the counter
\* returned.
C28_Monotone ==
    [][/\ \A c \in DOMAIN approx :
            /\ ApproxGet(c)' >= ApproxGet(c)
            /\ approx_log'[c].read >= approx_log[c].read
       /\ \A c \in DOMAIN flushing :
            /\ FlushingGet(c)' >= FlushingGet(c)
            /\ flushing_log'[c].read >= flushing_log[c].read]_vars

\* C28 witness: incs on a FlushingCounter have been flushed and the latest
\* get returned the raised value of the shared accumulator.
C28_Witness ==
    \E c \in DOMAIN flushing :
        /\ flushing_log[c].read > flushing_log[c].start
        /\ flushing_log[c].read = FlushingGet(c)
        /\ flushing_log[c].flushers # {}

\* C29 as stated: an ApproxCounter errs only downwards: in every reachable
\* state, incs and flushes of other threads part-way through included, get()
\* is at most start + the number of inc calls called on that counter.
C29_AsStated ==
    \A c \in DOMAIN approx :
        ApproxGet(c) <= approx_log[c].start + IncCalls(approx_log[c])

\* a step taken while the mutex is poisoned: the mutex stays poisoned, the
\* value stays as it is, and a thread that leaves lock() panics
PoisonedStep ==
    generic.poisoned =>
        /\ generic'.poisoned
        /\ generic'.data = generic.data
        /\ \A t \in Threads :
              (At(t, "lock") /\ pc'[t] # pc[t]) => pc'[t].at = "panicked"

\* C30: in the default build, once a thread has panicked while holding the
\* access (T's clone panicked inside get_cloned or inc_cloning, or the thread
\* panicked with a borrow handle alive) the mutex is poisoned for ever: no
\* thread is granted access again, no call returns, the value is never read
\* or changed again, and every call that leaves lock() panics.
C30_PoisonedForEver ==
    /\ [](generic.poisoned =>
            /\ generic.owner = 0
            /\ \A t \in Threads :
                  pc[t].at \in {"idle", "lock", "panicked", "terminated"})
    /\ [][PoisonedStep]_vars

\* C30 witness: an integer counter is poisoned and every thread has panicked:
\* one while it held a handle, the others in a later call.
C30_Witness ==
    /\ generic.ty = "integer"
    /\ generic.poisoned
    /\ \A t \in Threads : At(t, "panicked")

\* C31 as stated: an ApproxCounter built with resolution 0 is accepted and
\* behaves exactly like one of resolution 1: every inc takes the spill, as
\* it would with resolution 1, the private accumulator is 0 when the inc
\* returns, and get() is start + the inc calls made whenever no inc on the
\* counter is part-way through.
C31_AsStated ==
    /\ [](\A c \in DOMAIN approx :
            (approx[c].threshold = 0 /\ ApproxInInc(c) = {}) =>
                ApproxGet(c) = approx_log[c].start + IncCalls(approx_log[c]))
    /\ [][\A c \in DOMAIN approx : \A t \in Threads :
            approx[c].threshold = 0 =>
                /\ ApproxIncStep(t, c) =>
                      /\ pc'[t] = [at |-> "approx_inc_spill", self |-> c]
                      /\ ApproxSpills(ApproxTlc(c, t)', 1)
                /\ (At(t, "approx_inc_reset") /\ pc[t].self = c /\ pc'[t].at = "idle")
                      => ApproxTlc(c, t)' = 0]_vars

====
